---- MODULE Spec2Model ----
(***************************************************************************)
(* Model of the WebP batch converter: the batch scheduler and per-item     *)
(* pipeline of BatchConversionService (src/src/services/                   *)
(* convertionService.ts), the object-store gateway AWSS3Service            *)
(* (src/src/services/s3Service.ts) and the conversion ledger               *)
(* FileBasedConversionTracker (src/unnamed/part_002).                      *)
(*                                                                         *)
(* An action is one JavaScript continuation: the code that runs between    *)
(* two awaits of one async call.  Actions of different async calls         *)
(* interleave freely, as the event loop allows.                            *)
(*                                                                         *)
(* An object key is a sequence of tokens; a token is either "." or a       *)
(* maximal dot-free run of characters, so the position of the last "."     *)
(* and the text after it are those of the string.                          *)
(***************************************************************************)
EXTENDS Integers, Sequences, FiniteSets, TLC

VARIABLES
    \* ---- object store and batch scheduler ----
    bucket,          \* the store: key -> Size of the object, 0 when there is none
    dryRun,          \* BatchConversionService.dryRun
    sched,           \* where processAllImages / processConcurrentBatches stands
    run,             \* number of processAllImages calls begun
    images,          \* the listing processAllImages received (its local `images`)
    pending,         \* processingQueue.pending
    processing,      \* processingQueue.processing
    completed,       \* processingQueue.completed
    failed,          \* processingQueue.failed
    activePromises,  \* keys of the activePromises map
    settled,         \* keys whose processImageWithTracking promise has resolved
    report,          \* the ConversionReport of the batch in progress
    pipe,            \* per source key: position and ConversionResult of its pipeline
    started,         \* per source key: processImage invocations in this batch
    prevStatus,      \* per source key: status its pipeline ended with in the batch before
    supportedFormats,\* config.conversion.supportedFormats, as AWSS3Service holds it
    \* ---- conversion ledger ----
    mainFile,        \* trackingFilePath: whether it exists, the records of its JSON array
    appendLog,       \* appendLogPath: whether it exists, its lines, whether the last is partial
    convertedKeys,   \* FileBasedConversionTracker.convertedKeys
    isLoaded,        \* FileBasedConversionTracker.isLoaded
    writeQueue,      \* FileBasedConversionTracker.writeQueue
    isWriting,       \* FileBasedConversionTracker.isWriting
    calls,           \* per caller: the public ledger call it is inside, and where
    pwq,             \* the processWriteQueue invocation past its guard, if any
    nextId,          \* records created so far (stands for convertedAt)
    crashes,         \* process crashes so far
    faults,          \* file-system failures so far
    journaled,       \* keys whose journal append has succeeded, ever
    ackedFresh,      \* keys acknowledged by markAsConverted, no compaction step since
    mustRecover,     \* ackedFresh at the last crash
    loadFault,       \* a mkdir or journal read of a load failed since the last crash
    consDone,        \* the last consolidation that wrote the primary store: before, after
    lastRequeue,     \* the last failed compaction write: batch, queue before and after
    lastFlush,       \* the last flush() that returned: what it left behind
    lastMark,        \* the last markAsConverted that ended: how its append and it ended
    \* ---- application ----
    shutdown,        \* Application.shutdown: its phase, the write queue it left
    \* ---- target-key derivation ----
    derivSource,     \* the sourceKey argument of a generateTargetKey call
    derivTarget,     \* what the call returned
    \* ---- HTTP health endpoint ----
    health           \* per GET /health in progress: where it stands, what it found

schedVars == <<bucket, dryRun, sched, run, images, pending, processing, completed, failed,
               activePromises, settled, report, pipe, started, prevStatus,
               supportedFormats>>

ledgerVars == <<mainFile, appendLog, convertedKeys, isLoaded, writeQueue, isWriting,
                calls, pwq, nextId, crashes, faults, journaled, ackedFresh,
                mustRecover, loadFault, consDone, lastRequeue, lastFlush, lastMark>>

appVars == <<shutdown>>

derivVars == <<derivSource, derivTarget>>

healthVars == <<health>>

\* What the batch converter never touches
offBatchVars == <<ledgerVars, appVars, derivVars, healthVars>>

vars == <<schedVars, ledgerVars, appVars, derivVars, healthVars>>

(***************************************************************************)
(* Bounds of the model.                                                    *)
(***************************************************************************)
MaxImages == 2      \* objects in the bucket when the program starts
MaxRuns == 2        \* processAllImages calls on the same bucket

\* config.processing.concurrency, which CONCURRENCY sets to any of 1..50
Concurrency == 1

(***************************************************************************)
(* Keys, extensions, target keys.                                          *)
(***************************************************************************)
\* config.conversion.supportedFormats, the default of SUPPORTED_FORMATS
SupportedFormats == {"jpeg", "jpg", "png"}

\* The source objects a bucket may hold at the start: each with its Size and
\* with the length of the WebP its bytes encode to (smaller for two, larger
\* for one).
Pool ==
    << [key |-> <<"a", ".", "jpg">>, size |-> 4, webp |-> 1],
       [key |-> <<"a", ".", "png">>, size |-> 2, webp |-> 3],
       [key |-> <<"b", ".", "c", ".", "JPG">>, size |-> 3, webp |-> 2] >>

SourceKeys == {Pool[i].key : i \in 1..Len(Pool)}

\* String.prototype.toLowerCase on a token
ToLowerCase(t) == IF t = "JPG" THEN "jpg" ELSE IF t = "PNG" THEN "png" ELSE t

\* String.prototype.lastIndexOf("."), 1-based; 0 stands for -1
LastDotIndex(key) ==
    LET dots == {i \in 1..Len(key) : key[i] = "."}
    IN  IF dots = {} THEN 0 ELSE CHOOSE i \in dots : \A j \in dots : j <= i

\* key.split(".").pop(): the text after the last ".", the whole key without one
LastSegment(key) ==
    LET i == LastDotIndex(key)
    IN  IF i = Len(key) THEN "" ELSE key[Len(key)]

\* AWSS3Service.isImageFile
IsImageFile(key) ==
    LET extension == ToLowerCase(LastSegment(key))
    IN  extension # "" /\ extension \in supportedFormats

\* BatchConversionService.generateTargetKey
GenerateTargetKey(sourceKey) ==
    LET lastDotIndex == LastDotIndex(sourceKey)
    IN  IF lastDotIndex = 0
        THEN sourceKey \o <<".", "webp">>
        ELSE SubSeq(sourceKey, 1, lastDotIndex - 1) \o <<".", "webp">>

\* Every key the store can ever hold, in the order S3 lists keys (UTF-8 bytes).
KeyOrder ==
    << <<"a", ".", "jpg">>, <<"a", ".", "png">>, <<"a", ".", "webp">>,
       <<"b", ".", "c", ".", "JPG">>, <<"b", ".", "c", ".", "webp">> >>

AllKeys == {KeyOrder[i] : i \in 1..Len(KeyOrder)}

\* ListObjectsV2's Prefix filter
HasPrefix(key, prefix) ==
    Len(prefix) <= Len(key) /\ SubSeq(key, 1, Len(prefix)) = prefix

\* AWSS3Service.listImages, when every page is received: the objects under the
\* prefix that have a Key and a non-zero Size and pass isImageFile, in S3's order.
ListImages(store, prefix) ==
    LET Keep(key) == store[key] # 0 /\ HasPrefix(key, prefix) /\ IsImageFile(key)
        kept == SelectSeq(KeyOrder, Keep)
    IN  [i \in 1..Len(kept) |-> [key |-> kept[i], size |-> store[kept[i]]]]

(***************************************************************************)
(* Thrown values and error messages.                                       *)
(***************************************************************************)
\* What a failing collaborator may throw: an S3ServiceException (an Error with
\* a message), another Error whose message is empty, or a value that is no Error.
Thrown ==
    { [isError |-> TRUE, isS3 |-> TRUE, message |-> "boom"],
      [isError |-> TRUE, isS3 |-> FALSE, message |-> ""],
      [isError |-> FALSE, isS3 |-> FALSE, message |-> ""] }

\* error instanceof Error ? error.message : "Unknown error"
ErrorMessage(e) == IF e.isError THEN e.message ELSE "Unknown error"

\* The catch blocks of listImages, downloadImage and uploadImage: an
\* S3ServiceException is rethrown as new Error(`${what}: ${error.message}`),
\* anything else as it is.
WrapS3(what, e) ==
    IF e.isS3
    THEN [isError |-> TRUE, isS3 |-> FALSE, message |-> what \o ": " \o e.message]
    ELSE e

\* ConversionResult.error is optional: <<>> when unset, <<message>> when set
NoError == <<>>

\* JavaScript truthiness of result.error
Truthy(err) == err # <<>> /\ err[1] # ""

\* A key as the string it is
RECURSIVE KeyString(_)
KeyString(key) == IF key = <<>> THEN "" ELSE Head(key) \o KeyString(Tail(key))

(***************************************************************************)
(* Conversion results and the report.                                      *)
(***************************************************************************)
\* A ratio that is never below zero
RatioClamped(n, d) == [num |-> IF n < 0 THEN 0 ELSE n, den |-> d]

\* A ratio n/d, kept as the pair: (originalSize - convertedSize) / originalSize
Ratio(n, d) == [num |-> n, den |-> d]
ZeroRatio == Ratio(0, 1)

\* processImage, lines 212-220: the result a pipeline starts from
InitialResult(obj) ==
    [sourceKey |-> obj.key, targetKey |-> GenerateTargetKey(obj.key),
     originalSize |-> obj.size, convertedSize |-> 0,
     compressionRatio |-> ZeroRatio, status |-> "failed", error |-> NoError]

\* processAllImages, lines 42-52
EmptyReport ==
    [totalImages |-> 0, successful |-> 0, failed |-> 0, skipped |-> 0,
     totalSizeBefore |-> 0, totalSizeAfter |-> 0,
     averageCompressionRatio |-> ZeroRatio, errors |-> <<>>]

\* A fold that counts a failed result only when it carries an error message
FoldResultCountIfError(rep, res) ==
    CASE res.status = "success" ->
            [rep EXCEPT !.successful = @ + 1,
                        !.totalSizeBefore = @ + res.originalSize,
                        !.totalSizeAfter = @ + res.convertedSize]
      [] res.status = "failed" ->
            IF Truthy(res.error)
            THEN [rep EXCEPT !.failed = @ + 1,
                             !.errors = Append(@, KeyString(res.sourceKey) \o ": "
                                                     \o res.error[1])]
            ELSE rep
      [] res.status = "skipped" ->
            [rep EXCEPT !.skipped = @ + 1]

\* A fold that adds the sizes of a failed result as well
FoldResultSizesAlways(rep, res) ==
    CASE res.status = "success" ->
            [rep EXCEPT !.successful = @ + 1,
                        !.totalSizeBefore = @ + res.originalSize,
                        !.totalSizeAfter = @ + res.convertedSize]
      [] res.status = "failed" ->
            [rep EXCEPT !.failed = @ + 1,
                        !.totalSizeBefore = @ + res.originalSize,
                        !.totalSizeAfter = @ + res.convertedSize,
                        !.errors = IF Truthy(res.error)
                                   THEN Append(@, KeyString(res.sourceKey) \o ": " \o res.error[1])
                                   ELSE @]
      [] res.status = "skipped" ->
            [rep EXCEPT !.skipped = @ + 1]

\* processImageWithTracking, lines 160-178: one result folded into the report

FoldResult(rep, res) ==
    CASE res.status = "success" ->
            [rep EXCEPT !.successful = @ + 1,
                        !.totalSizeBefore = @ + res.originalSize,
                        !.totalSizeAfter = @ + res.convertedSize]
      [] res.status = "failed" ->
            [rep EXCEPT !.failed = @ + 1,
                        !.errors = IF Truthy(res.error)
                                   THEN Append(@, KeyString(res.sourceKey) \o ": " \o res.error[1])
                                   ELSE @]
      [] res.status = "skipped" ->
            [rep EXCEPT !.skipped = @ + 1]

\* processImageWithTracking, lines 181-203: the catch of a rejected processImage
FoldRejection(rep, key, e) ==
    [rep EXCEPT !.failed = @ + 1,
                !.errors = Append(@, KeyString(key) \o ": " \o ErrorMessage(e))]

RejectionResult(obj, e) ==
    [sourceKey |-> obj.key, targetKey |-> GenerateTargetKey(obj.key),
     originalSize |-> obj.size, convertedSize |-> 0,
     compressionRatio |-> ZeroRatio, status |-> "failed",
     error |-> <<ErrorMessage(e)>>]

\* An average that is the share of the bytes left, not of the bytes saved
WithAverageOfRest(rep) ==
    IF rep.successful > 0 /\ rep.totalSizeBefore > 0
    THEN [rep EXCEPT !.averageCompressionRatio =
                         Ratio(rep.totalSizeAfter, rep.totalSizeBefore)]
    ELSE rep

\* processAllImages, lines 72-77
WithAverage(rep) ==
    IF rep.successful > 0 /\ rep.totalSizeBefore > 0
    THEN [rep EXCEPT !.averageCompressionRatio =
                         Ratio(rep.totalSizeBefore - rep.totalSizeAfter, rep.totalSizeBefore)]
    ELSE rep

\* A catch that also counts the batch failure as a failed object
WithBatchErrorCounted(rep, e) ==
    [rep EXCEPT !.failed = @ + 1,
                !.errors = Append(@, "Batch conversion failed: " \o ErrorMessage(e))]

\* processAllImages, lines 107-113: the report of a batch whose listing threw
WithBatchError(rep, e) ==
    [rep EXCEPT !.errors = Append(@, "Batch conversion failed: " \o ErrorMessage(e))]

(***************************************************************************)
(* The batch scheduler: processAllImages and processConcurrentBatches.     *)
(***************************************************************************)
PipeIdle == [pc |-> "idle", obj |-> [key |-> <<>>, size |-> 0],
             result |-> <<>>, steps |-> <<>>]

\* pending.shift(): what is left of the queue once its head is taken
ShiftKeep(queue) == queue

Shift(queue) == Tail(queue)

TrackBoth(k, res, step) ==
    /\ report' = FoldResult(report, res)
    /\ completed' = completed \cup {k}
    /\ failed' = IF res.status = "failed" THEN failed \cup {k} ELSE failed
    /\ settled' = settled \cup {k}
    /\ pipe' = [pipe EXCEPT ![k].pc = "done", ![k].result = res,
                            ![k].steps = Append(@, step)]

\* A pipeline reaches its end with result res: processImage returns it and
\* processImageWithTracking (lines 157-180) folds it into the report.
Track(k, res, step) ==
    /\ report' = FoldResult(report, res)
    /\ completed' = IF res.status \in {"success", "skipped"}
                    THEN completed \cup {k} ELSE completed
    /\ failed' = IF res.status = "failed" THEN failed \cup {k} ELSE failed
    /\ settled' = settled \cup {k}
    /\ pipe' = [pipe EXCEPT ![k].pc = "done", ![k].result = res,
                            ![k].steps = Append(@, step)]

\* The inner while of processConcurrentBatches (lines 126-135), one turn: the
\* head of pending is shifted, marked as processing and its pipeline started
\* (processImage runs to its first await, inside skipIfExists); the scheduler
\* then sleeps 10 ms.  No test of the number of active promises is made.
Dispatch(queue, inProcessing, active) ==
    LET image == Head(queue)
    IN  /\ pending' = Shift(queue)
        /\ processing' = inProcessing \cup {image.key}
        /\ activePromises' = active \cup {image.key}
        /\ pipe' = [pipe EXCEPT ![image.key] =
                       [pc |-> "skipIfExists", obj |-> image,
                        result |-> InitialResult(image), steps |-> <<>>]]
        /\ started' = [started EXCEPT ![image.key] = @ + 1]
        /\ sched' = "pacing"

\* processAllImages has returned: by line 106 after the loop, by line 61 on an
\* empty listing, by line 113 from its catch
Returned == {"returned", "returnedEmpty", "returnedError"}

\* processAllImages up to its await of listImages (lines 41-57), for the
\* calls-th time at most
BeginBatch(maxCalls) ==
    /\ sched \in {"idle"} \cup Returned
    /\ run < maxCalls
    /\ run' = run + 1
    /\ sched' = "listing"
    /\ report' = EmptyReport
    /\ prevStatus' = [k \in SourceKeys |->
                         IF pipe[k].pc = "done" THEN pipe[k].result.status ELSE "none"]
    /\ pipe' = [k \in SourceKeys |-> PipeIdle]
    /\ started' = [k \in SourceKeys |-> 0]
    /\ settled' = {}
    /\ images' = <<>>
    /\ UNCHANGED <<bucket, dryRun, supportedFormats, pending, processing, completed, failed, activePromises>>
    /\ UNCHANGED offBatchVars

\* A listing handler that initialises the queue before it tests the length
ListingDoneClearing ==
    /\ sched = "listing"
    /\ images' = ListImages(bucket, <<>>)
    /\ IF Len(images') = 0
       THEN /\ sched' = "returnedEmpty"
            /\ pending' = <<>>
            /\ processing' = {}
            /\ completed' = {}
            /\ failed' = {}
            /\ UNCHANGED <<activePromises, pipe, started>>
       ELSE /\ Dispatch(images', {}, {})
            /\ completed' = {}
            /\ failed' = {}
    /\ UNCHANGED <<bucket, dryRun, supportedFormats, run, settled, report, prevStatus>>
    /\ UNCHANGED offBatchVars

\* listImages resolves (lines 59-70): an empty listing returns the report at
\* once; otherwise the queue is initialised and the first pipeline dispatched.
ListingDone ==
    /\ sched = "listing"
    /\ images' = ListImages(bucket, <<>>)
    /\ IF Len(images') = 0
       THEN /\ sched' = "returnedEmpty"
            /\ UNCHANGED <<pending, processing, completed, failed, activePromises,
                           pipe, started>>
       ELSE /\ Dispatch(images', {}, {})
            /\ completed' = {}
            /\ failed' = {}
    /\ UNCHANGED <<bucket, dryRun, supportedFormats, run, settled, report, prevStatus>>
    /\ UNCHANGED offBatchVars

\* listImages rejects (lines 107-113): the batch returns a report with one error line
ListingFails ==
    /\ sched = "listing"
    /\ \E e \in Thrown :
          report' = WithBatchError(report, WrapS3("Failed to list images from bucket", e))
    /\ sched' = "returnedError"
    /\ UNCHANGED <<bucket, dryRun, supportedFormats, run, images, pending, processing, completed, failed,
                   activePromises, settled, pipe, started, prevStatus>>
    /\ UNCHANGED offBatchVars

\* The 10 ms timer fires (lines 126-144): the next pending image is dispatched,
\* or, pending being empty, the scheduler awaits the race of the active promises.
PacingDone ==
    /\ sched = "pacing"
    /\ IF Len(pending) > 0
       THEN Dispatch(pending, processing, activePromises)
       ELSE /\ sched' = "race"
            /\ UNCHANGED <<pending, processing, activePromises, pipe, started>>
    /\ UNCHANGED <<bucket, dryRun, supportedFormats, run, images, completed, failed, settled, report,
                   prevStatus>>
    /\ UNCHANGED offBatchVars

\* A wake-up that leaves the settled promise in the map
RaceDoneKeeps ==
    /\ sched = "race"
    /\ \E completedKey \in activePromises \cap settled :
          /\ activePromises' = activePromises
          /\ processing' = processing \ {completedKey}
          /\ IF activePromises' # {}
             THEN /\ sched' = "race"
                  /\ report' = report
             ELSE /\ sched' = "returned"
                  /\ report' = WithAverage(report)
    /\ UNCHANGED <<bucket, dryRun, supportedFormats, run, images, pending, completed, failed, settled,
                   pipe, started, prevStatus>>
    /\ UNCHANGED offBatchVars

\* Promise.race resolves with the key of a settled pipeline (lines 139-149);
\* with other promises still active the scheduler races again, and with none
\* left processAllImages computes the average and returns (lines 72-106).
RaceDone ==
    /\ sched = "race"
    /\ \E completedKey \in activePromises \cap settled :
          /\ activePromises' = activePromises \ {completedKey}
          /\ processing' = processing \ {completedKey}
          /\ IF activePromises' # {}
             THEN /\ sched' = "race"
                  /\ report' = report
             ELSE /\ sched' = "returned"
                  /\ report' = WithAverage(report)
    /\ UNCHANGED <<bucket, dryRun, supportedFormats, run, images, pending, completed, failed, settled,
                   pipe, started, prevStatus>>
    /\ UNCHANGED offBatchVars

(***************************************************************************)
(* The per-item pipeline: processImage and skipIfExists.                   *)
(***************************************************************************)
\* webpBuffer.length: the length of what convertToWebP returns for an object
WebPLength(key) == Pool[CHOOSE i \in 1..Len(Pool) : Pool[i].key = key].webp

\* The catch of processImage (lines 293-297)
Caught(res, e) == [res EXCEPT !.error = <<ErrorMessage(e)>>]

\* skipIfExists (lines 310-331) when its listing resolves
TargetExists(store, targetKey) ==
    LET found == ListImages(store, targetKey)
    IN  \E i \in 1..Len(found) : found[i].key = targetKey

PipeFrame ==
    /\ UNCHANGED <<dryRun, supportedFormats, sched, run, images, pending, processing, activePromises,
                   started, prevStatus>>
    /\ UNCHANGED offBatchVars

SkipCheckDoneSized(k) ==
    /\ pipe[k].pc = "skipIfExists"
    /\ \E listed \in BOOLEAN :
          LET exists == listed /\ TargetExists(bucket, pipe[k].result.targetKey)
          IN  IF exists
              THEN Track(k, [pipe[k].result EXCEPT !.status = "skipped",
                                                   !.convertedSize = @ + 1],
                         "skipIfExists")
              ELSE /\ pipe' = [pipe EXCEPT ![k].pc = "download",
                                           ![k].steps = Append(@, IF listed
                                                                  THEN "skipIfExists"
                                                                  ELSE "skipIfExists:caught")]
                   /\ UNCHANGED <<report, completed, failed, settled>>
    /\ UNCHANGED bucket
    /\ PipeFrame

\* skipIfExists resolves (lines 224-233): true ends the pipeline as skipped;
\* false, or a listing that threw (caught, line 327), goes on to the download.
SkipCheckDone(k) ==
    /\ pipe[k].pc = "skipIfExists"
    /\ \E listed \in BOOLEAN :
          LET exists == listed /\ TargetExists(bucket, pipe[k].result.targetKey)
          IN  IF exists
              THEN Track(k, [pipe[k].result EXCEPT !.status = "skipped"], "skipIfExists")
              ELSE /\ pipe' = [pipe EXCEPT ![k].pc = "download",
                                           ![k].steps = Append(@, IF listed
                                                                  THEN "skipIfExists"
                                                                  ELSE "skipIfExists:caught")]
                   /\ UNCHANGED <<report, completed, failed, settled>>
    /\ UNCHANGED bucket
    /\ PipeFrame

\* downloadImage resolves, and validateImageFormat is awaited (lines 230-238)
DownloadDone(k) ==
    /\ pipe[k].pc = "download"
    /\ pipe' = [pipe EXCEPT ![k].pc = "validate", ![k].steps = Append(@, "download")]
    /\ UNCHANGED <<bucket, report, completed, failed, settled>>
    /\ PipeFrame

\* A failed download after which the upload is attempted all the same
DownloadFailsUploads(k) ==
    /\ pipe[k].pc = "download"
    /\ \E e \in Thrown :
          pipe' = [pipe EXCEPT ![k].pc = "upload",
                               ![k].result = Caught(pipe[k].result,
                                                    WrapS3("Failed to download image", e)),
                               ![k].steps = Append(@, "download")]
    /\ UNCHANGED <<bucket, report, completed, failed, settled>>
    /\ PipeFrame

\* downloadImage rejects
DownloadFails(k) ==
    /\ pipe[k].pc = "download"
    /\ \E e \in Thrown :
          Track(k, Caught(pipe[k].result, WrapS3("Failed to download image", e)), "download")
    /\ UNCHANGED bucket
    /\ PipeFrame

\* validateImageFormat resolves (lines 240-247); it never rejects
ValidateDone(k) ==
    /\ pipe[k].pc = "validate"
    /\ \E isValid \in BOOLEAN :
          IF isValid
          THEN /\ pipe' = [pipe EXCEPT ![k].pc = "metadata",
                                       ![k].steps = Append(@, "validate")]
               /\ UNCHANGED <<report, completed, failed, settled>>
          ELSE Track(k, [pipe[k].result EXCEPT
                            !.error = <<"Unsupported or invalid image format">>],
                     "validate")
    /\ UNCHANGED bucket
    /\ PipeFrame

\* getImageMetadata resolves, and convertToWebP is awaited (lines 247-253)
MetadataDone(k) ==
    /\ pipe[k].pc = "metadata"
    /\ pipe' = [pipe EXCEPT ![k].pc = "convert", ![k].steps = Append(@, "metadata")]
    /\ UNCHANGED <<bucket, report, completed, failed, settled>>
    /\ PipeFrame

\* getImageMetadata or convertToWebP rejects: both throw an ImageProcessingError,
\* whose message is never empty
CodecFails(k) ==
    /\ pipe[k].pc \in {"metadata", "convert"}
    /\ Track(k, Caught(pipe[k].result,
                       [isError |-> TRUE, isS3 |-> FALSE,
                        message |-> "Image conversion failed: boom"]),
             pipe[k].pc)
    /\ UNCHANGED bucket
    /\ PipeFrame

\* A pipeline that uploads whether or not the run is a dry run
ConvertDoneUploads(k) ==
    /\ pipe[k].pc = "convert"
    /\ LET size == WebPLength(k)
           res == [pipe[k].result EXCEPT
                      !.convertedSize = size,
                      !.compressionRatio = Ratio(pipe[k].result.originalSize - size,
                                                 pipe[k].result.originalSize)]
       IN  /\ pipe' = [pipe EXCEPT ![k].pc = "upload", ![k].result = res,
                                   ![k].steps = Append(@, "convert")]
           /\ UNCHANGED <<report, completed, failed, settled>>
    /\ UNCHANGED bucket
    /\ PipeFrame

\* convertToWebP resolves (lines 254-292): the sizes and the ratio are set; a dry
\* run ends here as success, otherwise uploadImage is awaited.
ConvertDone(k) ==
    /\ pipe[k].pc = "convert"
    /\ LET size == WebPLength(k)
           res == [pipe[k].result EXCEPT
                      !.convertedSize = size,
                      !.compressionRatio = Ratio(pipe[k].result.originalSize - size,
                                                 pipe[k].result.originalSize)]
       IN  IF dryRun
           THEN Track(k, [res EXCEPT !.status = "success"], "convert")
           ELSE /\ pipe' = [pipe EXCEPT ![k].pc = "upload", ![k].result = res,
                                        ![k].steps = Append(@, "convert")]
                /\ UNCHANGED <<report, completed, failed, settled>>
    /\ UNCHANGED bucket
    /\ PipeFrame

\* uploadImage resolves (lines 272-292): the target object is in the store
UploadDone(k) ==
    /\ pipe[k].pc = "upload"
    /\ bucket' = [bucket EXCEPT ![pipe[k].result.targetKey] = pipe[k].result.convertedSize]
    /\ Track(k, [pipe[k].result EXCEPT !.status = "success"], "upload")
    /\ PipeFrame

\* uploadImage rejects
UploadFails(k) ==
    /\ pipe[k].pc = "upload"
    /\ \E e \in Thrown :
          Track(k, Caught(pipe[k].result, WrapS3("Failed to upload image", e)), "upload")
    /\ UNCHANGED bucket
    /\ PipeFrame

\* processImage itself rejects, which the catch of processImageWithTracking
\* (lines 181-203) answers.  Nothing in processImage as written can throw outside
\* its own try: this is a pipeline substituted behind the ConversionService
\* interface, or a fault of the runtime, rejecting in place of the first step.
PipelineRejects(k) ==
    /\ pipe[k].pc = "skipIfExists"
    /\ \E e \in Thrown :
          /\ report' = FoldRejection(report, k, e)
          /\ pipe' = [pipe EXCEPT ![k].pc = "done",
                                  ![k].result = RejectionResult(pipe[k].obj, e),
                                  ![k].steps = Append(@, "rejected")]
    /\ failed' = failed \cup {k}
    /\ settled' = settled \cup {k}
    /\ UNCHANGED <<bucket, completed>>
    /\ PipeFrame

(***************************************************************************)
(* The conversion ledger: FileBasedConversionTracker.                      *)
(***************************************************************************)
MaxMarks == 2       \* markAsConverted calls, over all processes
MaxCrashes == 2     \* process crashes
MaxFaults == 1      \* file-system calls that fail (other than ENOENT)

\* The queue length at which markAsConverted starts a compaction (100 at line
\* 122, scaled to the number of records the model creates)
BatchThreshold == 2

\* Source keys handed to the ledger, and the async calls that may overlap
LedgerKeys == {"k1", "k2"}
Callers == {"A", "B"}

\* A file that is not there: reading it fails with ENOENT
Absent == [exists |-> FALSE, records |-> <<>>, torn |-> FALSE]

\* A journal line JSON.parse rejects
Garbage == [key |-> "", id |-> 0]

\* A ConversionRecord: its sourceKey, and id for the rest of its fields
Record(key, id) == [key |-> key, id |-> id]

KeysOf(records) == {records[i].key : i \in 1..Len(records)}

\* fs.readFile + JSON.parse of the primary store; Absent reads as ENOENT
MainRecords(file) == IF file.exists THEN file.records ELSE <<>>

\* fs.writeFile(trackingFilePath, JSON.stringify(records, null, 2))
WrittenMain(records) == [exists |-> TRUE, records |-> records, torn |-> FALSE]

\* data.trim().split('\n').filter(line => line.trim()) of the journal: its
\* complete lines, then its partial last line if it has one
LogLines(file) ==
    IF file.exists
    THEN file.records \o (IF file.torn THEN <<Garbage>> ELSE <<>>)
    ELSE <<>>

IsRecord(line) == line.id # 0

\* The records of the lines JSON.parse accepts
ParsedRecords(lines) == SelectSeq(lines, IsRecord)

\* fs.appendFile(appendLogPath, JSON.stringify(record) + '\n') (line 147): the
\* line lands behind what the file holds, so behind a partial last line it
\* completes that line, which then parses as no record.
AppendedLog(file, rec) ==
    [exists |-> TRUE,
     records |-> Append(file.records, IF file.torn THEN Garbage ELSE rec),
     torn |-> FALSE]

\* An append cut short by a crash: a partial last line, or a longer one
TornLog(file) == [exists |-> TRUE, records |-> file.records, torn |-> TRUE]

\* fs.writeFile(appendLogPath, '') (line 250)
EmptyLog == [exists |-> TRUE, records |-> <<>>, torn |-> FALSE]

\* consolidateFiles, lines 216-221 and 230-236: the records pushed onto
\* allRecords unless their sourceKey has been seen
RECURSIVE AddUnseen(_, _)
AddUnseen(allRecords, records) ==
    IF records = <<>> THEN allRecords
    ELSE AddUnseen(IF Head(records).key \in KeysOf(allRecords)
                   THEN allRecords ELSE Append(allRecords, Head(records)),
                   Tail(records))

\* A journal read that stops at the first line that does not parse
RECURSIVE LoadedUpToBadLine(_, _)
LoadedUpToBadLine(keys, lines) ==
    IF lines = <<>> \/ ~IsRecord(Head(lines)) THEN keys
    ELSE LoadedUpToBadLine(keys \cup {Head(lines).key}, Tail(lines))

\* loadFromAppendLog, lines 84-91: the journal lines added to the membership
\* set; a line that does not parse is skipped
LoadedFromLog(keys, lines) == keys \cup KeysOf(ParsedRecords(lines))

\* A requeue that pushes the batch behind what was queued meanwhile
RequeueBehind(batch, queue) == queue \o batch

\* processWriteQueue, line 194: the batch of a failed write put back
Requeue(batch, queue) == batch \o queue

IdleCall == [op |-> "none", pc |-> "none", rec |-> Garbage, all |-> <<>>, snap |-> {}]

Range(seq) == {seq[i] : i \in 1..Len(seq)}

\* flush() returns (line 269): whether the write it awaited failed, the write
\* queue it leaves, and the records queued at its call that the primary store
\* does not hold
FlushReturned(queuedAtCall, writeFailed, queueNow, fileNow) ==
    [returned |-> TRUE, writeFailed |-> writeFailed, queue |-> queueNow,
     uncommitted |-> Range(queuedAtCall) \ Range(MainRecords(fileNow))]

\* No flush has returned; no markAsConverted has ended
NoFlush == [returned |-> FALSE, writeFailed |-> FALSE, queue |-> <<>>, uncommitted |-> {}]
NoMark == [ended |-> FALSE, appendFailed |-> FALSE, rejected |-> FALSE, key |-> ""]

AppendToLogSwallows(appendFailed) == FALSE

\* The catch of appendToLog (lines 148-156) logs and rethrows: the await at
\* line 119 rejects, and so does markAsConverted, exactly when the append failed
AppendToLogRethrows(appendFailed) == appendFailed

\* markAsConverted ends (lines 119-137): by rejecting at line 119, or by
\* returning after line 136
MarkEnded(rec, appendFailed) ==
    [ended |-> TRUE, appendFailed |-> appendFailed,
     rejected |-> AppendToLogRethrows(appendFailed), key |-> rec.key]

\* No consolidation has written the primary store; no compaction write has failed
NoConsolidation == [done |-> FALSE, before |-> {}, after |-> <<>>]
NoRequeue == [failed |-> FALSE, batch |-> <<>>, during |-> <<>>, after |-> <<>>,
              writing |-> FALSE]
NoPwq == [pc |-> "none", batch |-> <<>>, existing |-> <<>>, awaitedBy |-> "none"]

\* A file-system call may fail while the budget of failures lasts
MayFail == faults < MaxFaults

LedgerFrame == UNCHANGED <<schedVars, appVars, derivVars, healthVars>>

\* The steps that end neither a flush nor a markAsConverted
GhostFrame == UNCHANGED <<lastFlush, lastMark>>

\* processWriteQueue up to its first await (lines 160-170): past the guard,
\* isWriting is set, the queue is taken and the primary store is being read
PwqStarts(queue, caller) ==
    /\ isWriting' = TRUE
    /\ pwq' = [pc |-> "read", batch |-> queue, existing |-> <<>>, awaitedBy |-> caller]
    /\ writeQueue' = <<>>

\* The end of loadConvertedKeys (line 64) and what the caller does next, to its
\* next await: isConverted (line 106) returns; markAsConverted (lines 113-119)
\* adds the key, queues the record and starts the journal append.
LoadEnds(c, keys) ==
    /\ isLoaded' = TRUE
    /\ IF calls[c].op = "markAsConverted"
       THEN /\ convertedKeys' = keys \cup {calls[c].rec.key}
            /\ writeQueue' = Append(writeQueue, calls[c].rec)
            /\ calls' = [calls EXCEPT ![c].pc = "append", ![c].all = <<>>, ![c].snap = {}]
       ELSE /\ convertedKeys' = keys
            /\ writeQueue' = writeQueue
            /\ calls' = [calls EXCEPT ![c] = IdleCall]

\* isConverted(key) is called (lines 104-106, 35-41): a loaded ledger answers
\* at once, an unloaded one starts loading with fs.mkdir
CallIsConverted(c) ==
    /\ calls[c].op = "none"
    /\ IF isLoaded
       THEN UNCHANGED calls
       ELSE calls' = [calls EXCEPT ![c] = [IdleCall EXCEPT !.op = "isConverted", !.pc = "mkdir"]]
    /\ UNCHANGED <<mainFile, appendLog, convertedKeys, isLoaded, writeQueue, isWriting, pwq,
                   nextId, crashes, faults, journaled, ackedFresh, mustRecover, loadFault,
                   consDone, lastRequeue>>
    /\ GhostFrame
    /\ LedgerFrame

\* markAsConverted(record) is called (lines 109-119, 35-41)
CallMarkAsConverted(c, key) ==
    /\ calls[c].op = "none"
    /\ nextId < MaxMarks
    /\ nextId' = nextId + 1
    /\ LET rec == Record(key, nextId + 1)
       IN  IF isLoaded
           THEN /\ convertedKeys' = convertedKeys \cup {key}
                /\ writeQueue' = Append(writeQueue, rec)
                /\ calls' = [calls EXCEPT ![c] = [IdleCall EXCEPT !.op = "markAsConverted",
                                                                  !.pc = "append", !.rec = rec]]
           ELSE /\ calls' = [calls EXCEPT ![c] = [IdleCall EXCEPT !.op = "markAsConverted",
                                                                  !.pc = "mkdir", !.rec = rec]]
                /\ UNCHANGED <<convertedKeys, writeQueue>>
    /\ UNCHANGED <<mainFile, appendLog, isLoaded, isWriting, pwq, crashes, faults, journaled,
                   ackedFresh, mustRecover, loadFault, consDone, lastRequeue>>
    /\ GhostFrame
    /\ LedgerFrame

\* flush() is called (lines 265-269, 160-170): with a queue and no compaction in
\* progress it starts one and awaits it; with an empty queue it returns at
\* once, and so it does with a compaction in progress, processWriteQueue
\* returning at its guard (line 160)
CallFlush(c) ==
    /\ calls[c].op = "none"
    /\ IF Len(writeQueue) > 0 /\ ~isWriting
       THEN /\ PwqStarts(writeQueue, c)
            /\ calls' = [calls EXCEPT ![c] = [IdleCall EXCEPT !.op = "flush", !.pc = "flushWait"]]
            /\ ackedFresh' = {}
            /\ UNCHANGED lastFlush
       ELSE /\ lastFlush' = FlushReturned(writeQueue, FALSE, writeQueue, mainFile)
            /\ UNCHANGED <<isWriting, pwq, writeQueue, calls, ackedFresh>>
    /\ UNCHANGED <<mainFile, appendLog, convertedKeys, isLoaded, nextId, crashes, faults,
                   journaled, mustRecover, loadFault, consDone, lastRequeue, lastMark>>
    /\ LedgerFrame

\* Frames: what the steps of a load, and of a compaction, leave alone
LoadFrame ==
    /\ UNCHANGED <<isWriting, pwq, nextId, crashes, journaled, mustRecover, lastRequeue>>
    /\ GhostFrame
    /\ LedgerFrame

\* fs.mkdir resolves (lines 41-44): the primary store is read next
MkdirDone(c) ==
    /\ calls[c].pc = "mkdir"
    /\ calls' = [calls EXCEPT ![c].pc = "loadMain"]
    /\ UNCHANGED <<mainFile, appendLog, convertedKeys, isLoaded, writeQueue, faults,
                   ackedFresh, loadFault, consDone>>
    /\ LoadFrame

\* fs.mkdir rejects (lines 55-64): the membership set is replaced by an empty one
MkdirFails(c) ==
    /\ calls[c].pc = "mkdir"
    /\ MayFail
    /\ faults' = faults + 1
    /\ loadFault' = TRUE
    /\ LoadEnds(c, {})
    /\ UNCHANGED <<mainFile, appendLog, ackedFresh, consDone>>
    /\ LoadFrame

\* loadFromMainFile (lines 67-77): the keys of the primary store are added; a
\* file that is not there adds none.  The journal is read next.
LoadMainDone(c) ==
    /\ calls[c].pc = "loadMain"
    /\ convertedKeys' = convertedKeys \cup KeysOf(MainRecords(mainFile))
    /\ calls' = [calls EXCEPT ![c].pc = "loadLog"]
    /\ UNCHANGED <<mainFile, appendLog, isLoaded, writeQueue, faults, ackedFresh,
                   loadFault, consDone>>
    /\ LoadFrame

\* The read of the primary store fails (lines 72-76): a warning, no key added
LoadMainFails(c) ==
    /\ calls[c].pc = "loadMain"
    /\ MayFail
    /\ faults' = faults + 1
    /\ calls' = [calls EXCEPT ![c].pc = "loadLog"]
    /\ UNCHANGED <<mainFile, appendLog, convertedKeys, isLoaded, writeQueue, ackedFresh,
                   loadFault, consDone>>
    /\ LoadFrame

\* loadFromAppendLog (lines 79-96): the keys of the journal's well-formed lines
\* are added; with at least one line consolidateFiles begins by reading the
\* primary store, and without a journal or without lines the load ends.
LoadLogDone(c) ==
    /\ calls[c].pc = "loadLog"
    /\ LET lines == LogLines(appendLog)
           keys == LoadedFromLog(convertedKeys, lines)
       IN  IF Len(lines) > 0
           THEN /\ convertedKeys' = keys
                /\ calls' = [calls EXCEPT
                               ![c].pc = "consMain",
                               ![c].snap = KeysOf(MainRecords(mainFile))
                                              \cup KeysOf(ParsedRecords(lines))]
                /\ ackedFresh' = {}
                /\ UNCHANGED <<isLoaded, writeQueue>>
           ELSE /\ LoadEnds(c, keys)
                /\ UNCHANGED ackedFresh
    /\ UNCHANGED <<mainFile, appendLog, faults, loadFault, consDone>>
    /\ LoadFrame

\* The read of the journal fails (lines 97-101): a warning, and the load ends
LoadLogFails(c) ==
    /\ calls[c].pc = "loadLog"
    /\ MayFail
    /\ faults' = faults + 1
    /\ loadFault' = TRUE
    /\ LoadEnds(c, convertedKeys)
    /\ UNCHANGED <<mainFile, appendLog, ackedFresh, consDone>>
    /\ LoadFrame

\* consolidateFiles reads the primary store (lines 213-221); the journal is
\* read next
ConsMainDone(c) ==
    /\ calls[c].pc = "consMain"
    /\ calls' = [calls EXCEPT ![c].pc = "consLog",
                              ![c].all = AddUnseen(<<>>, MainRecords(mainFile))]
    /\ ackedFresh' = {}
    /\ UNCHANGED <<mainFile, appendLog, convertedKeys, isLoaded, writeQueue, faults,
                   loadFault, consDone>>
    /\ LoadFrame

\* That read fails (lines 222-224): whatever the error, allRecords stays empty
ConsMainFails(c) ==
    /\ calls[c].pc = "consMain"
    /\ MayFail
    /\ faults' = faults + 1
    /\ calls' = [calls EXCEPT ![c].pc = "consLog", ![c].all = <<>>]
    /\ ackedFresh' = {}
    /\ UNCHANGED <<mainFile, appendLog, convertedKeys, isLoaded, writeQueue, loadFault,
                   consDone>>
    /\ LoadFrame

\* consolidateFiles reads the journal (lines 227-247); the consolidated
\* primary store is written next
ConsLogDone(c) ==
    /\ calls[c].pc = "consLog"
    /\ calls' = [calls EXCEPT
                   ![c].pc = "consWrite",
                   ![c].all = AddUnseen(@, ParsedRecords(LogLines(appendLog)))]
    /\ ackedFresh' = {}
    /\ UNCHANGED <<mainFile, appendLog, convertedKeys, isLoaded, writeQueue, faults,
                   loadFault, consDone>>
    /\ LoadFrame

\* A consolidation whose failing step empties the journal all the same
ConsStepFailsTruncating(c) ==
    /\ calls[c].pc \in {"consLog", "consWrite", "consTrunc"}
    /\ MayFail
    /\ faults' = faults + 1
    /\ appendLog' = EmptyLog
    /\ LoadEnds(c, convertedKeys)
    /\ ackedFresh' = {}
    /\ UNCHANGED <<mainFile, loadFault, consDone>>
    /\ LoadFrame

\* A read or write of consolidateFiles other than the first read fails (lines
\* 256-261): the error is logged and the load ends
ConsStepFails(c) ==
    /\ calls[c].pc \in {"consLog", "consWrite", "consTrunc"}
    /\ MayFail
    /\ faults' = faults + 1
    /\ LoadEnds(c, convertedKeys)
    /\ ackedFresh' = {}
    /\ UNCHANGED <<mainFile, appendLog, loadFault, consDone>>
    /\ LoadFrame

\* The consolidated primary store is written (lines 243-250); the journal is
\* emptied next
ConsWriteDone(c) ==
    /\ calls[c].pc = "consWrite"
    /\ mainFile' = WrittenMain(calls[c].all)
    /\ consDone' = [done |-> TRUE, before |-> calls[c].snap, after |-> calls[c].all]
    /\ calls' = [calls EXCEPT ![c].pc = "consTrunc"]
    /\ ackedFresh' = {}
    /\ UNCHANGED <<appendLog, convertedKeys, isLoaded, writeQueue, faults, loadFault>>
    /\ LoadFrame

\* The journal is emptied (lines 250-255), and the load ends
ConsTruncDone(c) ==
    /\ calls[c].pc = "consTrunc"
    /\ appendLog' = EmptyLog
    /\ LoadEnds(c, convertedKeys)
    /\ ackedFresh' = {}
    /\ UNCHANGED <<mainFile, faults, loadFault, consDone>>
    /\ LoadFrame

\* A markAsConverted that starts a compaction whatever the length of the queue
AppendDoneEager(c) ==
    /\ calls[c].pc = "append"
    /\ appendLog' = AppendedLog(appendLog, calls[c].rec)
    /\ journaled' = journaled \cup {calls[c].rec.key}
    /\ calls' = [calls EXCEPT ![c] = IdleCall]
    /\ IF ~isWriting
       THEN /\ PwqStarts(writeQueue, "none")
            /\ ackedFresh' = {}
       ELSE /\ ackedFresh' = ackedFresh \cup {calls[c].rec.key}
            /\ UNCHANGED <<isWriting, pwq, writeQueue>>
    /\ UNCHANGED <<mainFile, convertedKeys, isLoaded, nextId, crashes, faults, mustRecover,
                   loadFault, consDone, lastRequeue>>
    /\ lastMark' = MarkEnded(calls[c].rec, FALSE)
    /\ UNCHANGED lastFlush
    /\ LedgerFrame

\* appendToLog resolves (lines 119-137): the line is in the journal, a full
\* queue starts a compaction that is not awaited, and markAsConverted returns
AppendDone(c) ==
    /\ calls[c].pc = "append"
    /\ appendLog' = AppendedLog(appendLog, calls[c].rec)
    /\ journaled' = journaled \cup {calls[c].rec.key}
    /\ calls' = [calls EXCEPT ![c] = IdleCall]
    /\ IF ~isWriting /\ Len(writeQueue) >= BatchThreshold
       THEN /\ PwqStarts(writeQueue, "none")
            /\ ackedFresh' = {}
       ELSE /\ ackedFresh' = ackedFresh \cup {calls[c].rec.key}
            /\ UNCHANGED <<isWriting, pwq, writeQueue>>
    /\ UNCHANGED <<mainFile, convertedKeys, isLoaded, nextId, crashes, faults, mustRecover,
                   loadFault, consDone, lastRequeue>>
    /\ lastMark' = MarkEnded(calls[c].rec, FALSE)
    /\ UNCHANGED lastFlush
    /\ LedgerFrame

\* appendToLog rejects (lines 148-156): markAsConverted rejects with the error
AppendFails(c) ==
    /\ calls[c].pc = "append"
    /\ MayFail
    /\ faults' = faults + 1
    /\ calls' = [calls EXCEPT ![c] = IdleCall]
    /\ UNCHANGED <<mainFile, appendLog, convertedKeys, isLoaded, writeQueue, isWriting, pwq,
                   nextId, crashes, journaled, ackedFresh, mustRecover, loadFault, consDone,
                   lastRequeue>>
    /\ lastMark' = MarkEnded(calls[c].rec, TRUE)
    /\ UNCHANGED lastFlush
    /\ LedgerFrame

\* processWriteQueue has read the primary store (lines 168-185): the batch is
\* pushed behind the records read and the file is being written
PwqReadDone ==
    /\ pwq.pc = "read"
    /\ pwq' = [pwq EXCEPT !.pc = "write", !.existing = MainRecords(mainFile)]
    /\ ackedFresh' = {}
    /\ UNCHANGED <<mainFile, appendLog, convertedKeys, isLoaded, writeQueue, isWriting, calls,
                   nextId, crashes, faults, journaled, mustRecover, loadFault, consDone,
                   lastRequeue>>
    /\ GhostFrame
    /\ LedgerFrame

\* That read fails (lines 172-175): whatever the error, the file is taken to
\* hold no record
PwqReadFails ==
    /\ pwq.pc = "read"
    /\ MayFail
    /\ faults' = faults + 1
    /\ pwq' = [pwq EXCEPT !.pc = "write", !.existing = <<>>]
    /\ ackedFresh' = {}
    /\ UNCHANGED <<mainFile, appendLog, convertedKeys, isLoaded, writeQueue, isWriting, calls,
                   nextId, crashes, journaled, mustRecover, loadFault, consDone, lastRequeue>>
    /\ GhostFrame
    /\ LedgerFrame

\* processWriteQueue ends (lines 201-203); a flush that awaited it returns
PwqEnds ==
    /\ isWriting' = FALSE
    /\ pwq' = NoPwq
    /\ calls' = IF pwq.awaitedBy = "none" THEN calls
                ELSE [calls EXCEPT ![pwq.awaitedBy] = IdleCall]

\* The primary store is written (lines 181-191)
PwqWriteDone ==
    /\ pwq.pc = "write"
    /\ mainFile' = WrittenMain(pwq.existing \o pwq.batch)
    /\ PwqEnds
    /\ lastFlush' = IF pwq.awaitedBy = "none" THEN lastFlush
                    ELSE FlushReturned(pwq.batch, FALSE, writeQueue, mainFile')
    /\ ackedFresh' = {}
    /\ UNCHANGED <<appendLog, convertedKeys, isLoaded, writeQueue, nextId, crashes, faults,
                   journaled, mustRecover, loadFault, consDone, lastRequeue, lastMark>>
    /\ LedgerFrame

\* The write fails (lines 192-200): the batch goes back into the queue
PwqWriteFails ==
    /\ pwq.pc = "write"
    /\ MayFail
    /\ faults' = faults + 1
    /\ writeQueue' = Requeue(pwq.batch, writeQueue)
    /\ PwqEnds
    /\ lastRequeue' = [failed |-> TRUE, batch |-> pwq.batch, during |-> writeQueue,
                       after |-> writeQueue', writing |-> isWriting']
    /\ lastFlush' = IF pwq.awaitedBy = "none" THEN lastFlush
                    ELSE FlushReturned(pwq.batch, TRUE, writeQueue', mainFile)
    /\ ackedFresh' = {}
    /\ UNCHANGED <<mainFile, appendLog, convertedKeys, isLoaded, nextId, crashes, journaled,
                   mustRecover, loadFault, consDone, lastMark>>
    /\ LedgerFrame

\* The process crashes and a new one starts: what was in memory is gone, the
\* files stay.  A write in flight has not reached its file, except that a
\* journal append may have reached it in part.
Crash ==
    /\ crashes < MaxCrashes
    /\ crashes' = crashes + 1
    /\ \E torn \in BOOLEAN :
          /\ torn => \E c \in Callers : calls[c].pc = "append"
          /\ appendLog' = IF torn THEN TornLog(appendLog) ELSE appendLog
    /\ convertedKeys' = {}
    /\ isLoaded' = FALSE
    /\ writeQueue' = <<>>
    /\ isWriting' = FALSE
    /\ calls' = [c \in Callers |-> IdleCall]
    /\ pwq' = NoPwq
    /\ mustRecover' = ackedFresh
    /\ ackedFresh' = {}
    /\ loadFault' = FALSE
    /\ consDone' = NoConsolidation
    /\ lastRequeue' = NoRequeue
    /\ lastFlush' = NoFlush
    /\ lastMark' = NoMark
    /\ UNCHANGED <<mainFile, nextId, faults, journaled>>
    /\ LedgerFrame

(***************************************************************************)
(* The application: Application.shutdown (cli.ts).                         *)
(***************************************************************************)
NotShutDown == [phase |-> "running", flushed |-> FALSE, queued |-> <<>>]

AppFrame == UNCHANGED <<schedVars, ledgerVars, derivVars, healthVars>>

\* shutdown() is called (lines 375-388): isShuttingDown is set; shutdownHandlers
\* is empty (addShutdownHandler is never called), so the loop runs no handler,
\* and expressService.stopServer() is awaited.  No call of the ledger is made.
ShutdownStarts ==
    /\ shutdown.phase = "running"
    /\ shutdown' = [shutdown EXCEPT !.phase = "stopping"]
    /\ AppFrame

\* stopServer resolves (line 388): shutdown completes, whatever the ledger's
\* write queue holds
ShutdownDone ==
    /\ shutdown.phase = "stopping"
    /\ shutdown' = [shutdown EXCEPT !.phase = "complete", !.queued = writeQueue]
    /\ AppFrame

\* stopServer rejects (lines 389-391): the catch rethrows and shutdown rejects
ShutdownRejects ==
    /\ shutdown.phase = "stopping"
    /\ shutdown' = [shutdown EXCEPT !.phase = "rejected", !.queued = writeQueue]
    /\ AppFrame

(***************************************************************************)
(* Target keys: generateTargetKey as a function of any source key.         *)
(***************************************************************************)
MaxKeyLen == 4      \* tokens of a source key

\* The pieces source keys are made of: a name, the dot, the path delimiter
KeyTokens == {"a", "jpg", ".", "/"}

RECURSIVE KeysOfLen(_)
KeysOfLen(n) ==
    IF n = 0 THEN {<<>>}
    ELSE {Append(key, t) : key \in KeysOfLen(n - 1), t \in KeyTokens}

\* Source keys of one to MaxKeyLen tokens
KeyInputs == UNION {KeysOfLen(n) : n \in 1..MaxKeyLen}

\* generateTargetKey(sourceKey) is called and returns (lines 299-309)
DeriveTargetKey ==
    /\ derivTarget = <<>>
    /\ derivTarget' = GenerateTargetKey(derivSource)
    /\ UNCHANGED <<derivSource, schedVars, ledgerVars, appVars, healthVars>>

(***************************************************************************)
(* The health endpoint: GET /health, getHealthStatus, healthCheck.         *)
(***************************************************************************)
\* The GET /health requests the server may be answering at once
Requests == {"r1", "r2"}

\* healthCheck's `details` as initialised (s3Service.ts lines 243-247)
NoDetails == [connection |-> FALSE, sourceBucketAccess |-> FALSE, targetBucketAccess |-> FALSE]

\* A request not received, or answered and forgotten
NoHealth ==
    [pc |-> "idle", details |-> NoDetails, s3Health |-> "none", memoryStats |-> "none",
     diskStats |-> "none", overallStatus |-> "none", statusCode |-> 0]

\* healthCheck, lines 260-268: `isHealthy` and the status returned
IsHealthy(details) ==
    details.connection /\ details.sourceBucketAccess /\ details.targetBucketAccess

HealthCheckStatus(details) == IF IsHealthy(details) THEN "healthy" ELSE "unhealthy"

\* Percentages of memory or disk in use that the host may report
Percentages == {80, 86, 91, 96}

\* getMemoryStats (part_000 lines 184-189)
MemoryStatus(percentage) ==
    IF percentage > 90 THEN "unhealthy"
    ELSE IF percentage > 80 THEN "degraded"
    ELSE "healthy"

\* getDiskStats (part_000 lines 218-223)
DiskStatus(percentage) ==
    IF percentage > 95 THEN "unhealthy"
    ELSE IF percentage > 85 THEN "degraded"
    ELSE "healthy"

\* What getDiskStats may return: the status of a percentage, or "healthy" when
\* statfs throws (part_000 lines 233-243)
DiskStatuses == {DiskStatus(p) : p \in Percentages} \cup {"healthy"}

\* getHealthStatus, lines 140-153
OverallStatus(s3Health, memoryStats, diskStats) ==
    IF s3Health = "unhealthy" \/ memoryStats = "unhealthy" \/ diskStats = "unhealthy"
    THEN "unhealthy"
    ELSE IF memoryStats = "degraded" \/ diskStats = "degraded"
    THEN "degraded"
    ELSE "healthy"

\* The /health route, lines 86-91
StatusCode(status) ==
    IF status = "healthy" THEN 200
    ELSE IF status = "degraded" THEN 200
    ELSE 503

HealthFrame == UNCHANGED <<schedVars, ledgerVars, appVars, derivVars>>

\* GET /health arrives (part_000 lines 83-85, 135; s3Service.ts lines 243-251):
\* healthCheck starts with all details false and awaits validateConnection
HealthRequested(r) ==
    /\ health[r].pc \in {"idle", "answered"}
    /\ health' = [health EXCEPT ![r] = [NoHealth EXCEPT !.pc = "validateConnection"]]
    /\ HealthFrame

\* validateConnection resolves (s3Service.ts lines 251-268): true lets
\* healthCheck await the permission check of the target bucket, false makes it
\* return
ValidateConnectionDone(r) ==
    /\ health[r].pc = "validateConnection"
    /\ \E connection \in BOOLEAN :
          LET details == [health[r].details EXCEPT !.connection = connection]
          IN  health' = [health EXCEPT
                           ![r].details = details,
                           ![r].pc = IF connection THEN "checkBucketPermissions"
                                     ELSE "getDiskStats",
                           ![r].s3Health = IF connection THEN "none"
                                           ELSE HealthCheckStatus(details)]
    /\ HealthFrame

\* checkBucketPermissions(targetBucket) resolves (s3Service.ts lines 254-268):
\* its answer goes into details.targetBucketAccess and healthCheck returns
CheckBucketPermissionsDone(r) ==
    /\ health[r].pc = "checkBucketPermissions"
    /\ \E access \in BOOLEAN :
          LET details == [health[r].details EXCEPT !.targetBucketAccess = access]
          IN  health' = [health EXCEPT
                           ![r].details = details,
                           ![r].pc = "getDiskStats",
                           ![r].s3Health = HealthCheckStatus(details)]
    /\ HealthFrame

\* checkBucketPermissions rejects (s3Service.ts lines 268-273): the catch of
\* healthCheck returns "unhealthy" with the details found so far
CheckBucketPermissionsFails(r) ==
    /\ health[r].pc = "checkBucketPermissions"
    /\ health' = [health EXCEPT ![r].pc = "getDiskStats", ![r].s3Health = "unhealthy"]
    /\ HealthFrame

\* getMemoryStats has returned and getDiskStats resolves (part_000 lines
\* 136-166, 85-93): the overall status is computed and the response is sent
HealthAnswered(r) ==
    /\ health[r].pc = "getDiskStats"
    /\ \E percentage \in Percentages, diskStats \in DiskStatuses :
          LET memoryStats == MemoryStatus(percentage)
              overallStatus == OverallStatus(health[r].s3Health, memoryStats, diskStats)
          IN  health' = [health EXCEPT
                           ![r].pc = "answered",
                           ![r].memoryStats = memoryStats,
                           ![r].diskStats = diskStats,
                           ![r].overallStatus = overallStatus,
                           ![r].statusCode = StatusCode(overallStatus)]
    /\ HealthFrame

(***************************************************************************)
(* Initial states and specifications.                                      *)
(***************************************************************************)
\* The program starts on a bucket holding at most MaxImages source objects, as
\* a real run or as a dry run, with nothing in progress.
SchedInit ==
    /\ \E chosen \in SUBSET (1..Len(Pool)) :
          /\ Cardinality(chosen) <= MaxImages
          /\ bucket = [key \in AllKeys |->
                          IF \E i \in chosen : Pool[i].key = key
                          THEN (CHOOSE o \in {Pool[i] : i \in chosen} : o.key = key).size
                          ELSE 0]
    /\ dryRun \in BOOLEAN
    /\ sched = "idle"
    /\ run = 0
    /\ images = <<>>
    /\ pending = <<>>
    /\ processing = {}
    /\ completed = {}
    /\ failed = {}
    /\ activePromises = {}
    /\ settled = {}
    /\ report = EmptyReport
    /\ pipe = [k \in SourceKeys |-> PipeIdle]
    /\ started = [k \in SourceKeys |-> 0]
    /\ prevStatus = [k \in SourceKeys |-> "none"]
    /\ supportedFormats \in {SupportedFormats, SupportedFormats \cup {"webp"}}

\* A ledger just constructed, over files no run has written yet
LedgerInit ==
    /\ mainFile = Absent
    /\ appendLog = Absent
    /\ convertedKeys = {}
    /\ isLoaded = FALSE
    /\ writeQueue = <<>>
    /\ isWriting = FALSE
    /\ calls = [c \in Callers |-> IdleCall]
    /\ pwq = NoPwq
    /\ nextId = 0
    /\ crashes = 0
    /\ faults = 0
    /\ journaled = {}
    /\ ackedFresh = {}
    /\ mustRecover = {}
    /\ loadFault = FALSE
    /\ consDone = NoConsolidation
    /\ lastRequeue = NoRequeue
    /\ lastFlush = NoFlush
    /\ lastMark = NoMark

\* An application just constructed (cli.ts line 322), and no key derived yet
AppInit ==
    /\ shutdown = NotShutDown
    /\ derivSource = <<>>
    /\ derivTarget = <<>>
    /\ health = [r \in Requests |-> NoHealth]

Init == SchedInit /\ LedgerInit /\ AppInit

\* The ledger alone: no bucket, no batch
LedgerOnlyInit ==
    /\ SchedInit
    /\ dryRun = FALSE
    /\ supportedFormats = SupportedFormats
    /\ \A key \in AllKeys : bucket[key] = 0
    /\ LedgerInit
    /\ AppInit

\* What an earlier process may have left in the primary store: nothing, or the
\* records of a compaction
LeftMainFiles == {Absent, WrittenMain(<<Record("k1", 1)>>)}

\* What an earlier process may have left in the journal: nothing, an emptied
\* file, appended lines, a partial last line (a crash during an append), and a
\* malformed line followed by a well-formed one (appends behind a partial line)
LeftJournals ==
    { Absent,
      EmptyLog,
      [exists |-> TRUE, records |-> <<Record("k2", 2)>>, torn |-> FALSE],
      [exists |-> TRUE, records |-> <<Record("k1", 1), Record("k2", 2)>>, torn |-> FALSE],
      [exists |-> TRUE, records |-> <<Record("k2", 2)>>, torn |-> TRUE],
      [exists |-> TRUE, records |-> <<Garbage, Record("k2", 2)>>, torn |-> FALSE],
      [exists |-> TRUE, records |-> <<Garbage>>, torn |-> FALSE] }

\* A process that starts on the files an earlier process left
RecoveryInit ==
    /\ SchedInit
    /\ dryRun = FALSE
    /\ supportedFormats = SupportedFormats
    /\ \A key \in AllKeys : bucket[key] = 0
    /\ mainFile \in LeftMainFiles
    /\ appendLog \in LeftJournals
    /\ convertedKeys = {}
    /\ isLoaded = FALSE
    /\ writeQueue = <<>>
    /\ isWriting = FALSE
    /\ calls = [c \in Callers |-> IdleCall]
    /\ pwq = NoPwq
    /\ nextId = MaxMarks
    /\ crashes = 0
    /\ faults = 0
    /\ journaled = {}
    /\ ackedFresh = {}
    /\ mustRecover = {}
    /\ loadFault = FALSE
    /\ consDone = NoConsolidation
    /\ lastRequeue = NoRequeue
    /\ lastFlush = NoFlush
    /\ lastMark = NoMark
    /\ AppInit

\* No batch, no ledger call: a source key and generateTargetKey not yet called
DerivInit ==
    /\ SchedInit
    /\ dryRun = FALSE
    /\ supportedFormats = SupportedFormats
    /\ \A key \in AllKeys : bucket[key] = 0
    /\ LedgerInit
    /\ shutdown = NotShutDown
    /\ derivSource \in KeyInputs
    /\ derivTarget = <<>>
    /\ health = [r \in Requests |-> NoHealth]

\* One `convert` command: processAllImages is called once
StartBatch == BeginBatch(1)

\* The command is run again and again on the same bucket
RestartBatch == BeginBatch(MaxRuns)

BatchSteps ==
    \/ ListingDone
    \/ ListingFails
    \/ PacingDone
    \/ RaceDone
    \/ \E k \in SourceKeys :
          \/ SkipCheckDone(k)
          \/ DownloadDone(k)
          \/ DownloadFails(k)
          \/ ValidateDone(k)
          \/ MetadataDone(k)
          \/ CodecFails(k)
          \/ ConvertDone(k)
          \/ UploadDone(k)
          \/ UploadFails(k)
          \/ PipelineRejects(k)

\* The batch converter: one batch, its scheduler and its pipelines over the store
Next == StartBatch \/ BatchSteps

Spec == Init /\ [][Next]_vars

\* Application.runConversion (cli.ts lines 393-405): refused once shutdown has
\* begun, otherwise processAllImages is called
RunConversion ==
    /\ shutdown.phase = "running"
    /\ StartBatch

\* The application running one batch while a shutdown signal may arrive
RunNext == RunConversion \/ BatchSteps \/ ShutdownStarts \/ ShutdownDone \/ ShutdownRejects

RunSpec == Init /\ [][RunNext]_vars

\* The batch converter run repeatedly on the same bucket
RerunNext == RestartBatch \/ BatchSteps

\* under the default configuration
RerunInit == Init /\ supportedFormats = SupportedFormats

RerunSpec == RerunInit /\ [][RerunNext]_vars

\* Between two batches somebody deletes the source objects: the next listing
\* (s3Service.ts lines 74-123) finds what the bucket holds then
SourcesDeleted ==
    /\ sched \in Returned
    /\ \E k \in SourceKeys : bucket[k] # 0
    /\ bucket' = [key \in AllKeys |-> IF key \in SourceKeys THEN 0 ELSE bucket[key]]
    /\ UNCHANGED <<dryRun, sched, run, images, pending, processing, completed, failed,
                   activePromises, settled, report, pipe, started, prevStatus,
                   supportedFormats>>
    /\ UNCHANGED offBatchVars

\* The command is run again on a bucket that holds no source object
RerunEmptied ==
    /\ \A k \in SourceKeys : bucket[k] = 0
    /\ RestartBatch

EmptiedNext == Next \/ SourcesDeleted \/ RerunEmptied

\* A batch, then batches on the emptied bucket, under the default configuration
EmptiedSpec == RerunInit /\ [][EmptiedNext]_vars

\* A `convert` command without --dry-run, under the default configuration
FairInit == RerunInit /\ ~dryRun

\* One such batch in which every awaited call settles: the listing, the 10 ms
\* timers, the race, and each step of each started pipeline
FairSpec == FairInit /\ [][Next]_vars /\ WF_vars(BatchSteps)

\* What one process does with its ledger: calls that overlap, and their steps
LedgerSteps ==
    \/ PwqReadDone
    \/ PwqReadFails
    \/ PwqWriteDone
    \/ PwqWriteFails
    \/ \E c \in Callers :
          \/ CallIsConverted(c)
          \/ \E key \in LedgerKeys : CallMarkAsConverted(c, key)
          \/ CallFlush(c)
          \/ MkdirDone(c)
          \/ MkdirFails(c)
          \/ LoadMainDone(c)
          \/ LoadMainFails(c)
          \/ LoadLogDone(c)
          \/ LoadLogFails(c)
          \/ ConsMainDone(c)
          \/ ConsMainFails(c)
          \/ ConsLogDone(c)
          \/ ConsStepFails(c)
          \/ ConsWriteDone(c)
          \/ ConsTruncDone(c)
          \/ AppendDone(c)
          \/ AppendFails(c)

\* The steps of the lazy load and of its consolidation, for overlapping callers
LoadSteps ==
    \E c \in Callers :
        \/ CallIsConverted(c)
        \/ MkdirDone(c)
        \/ MkdirFails(c)
        \/ LoadMainDone(c)
        \/ LoadMainFails(c)
        \/ LoadLogDone(c)
        \/ LoadLogFails(c)
        \/ ConsMainDone(c)
        \/ ConsMainFails(c)
        \/ ConsLogDone(c)
        \/ ConsStepFails(c)
        \/ ConsWriteDone(c)
        \/ ConsTruncDone(c)

RecoveryNext == Crash \/ LoadSteps

\* Processes that load the ledger from the files earlier processes left
RecoverySpec == RecoveryInit /\ [][RecoveryNext]_vars

\* The ledger of one process, under overlapping calls and file-system failures
ProcessSpec == LedgerOnlyInit /\ [][LedgerSteps]_vars

LedgerNext == Crash \/ LedgerSteps

\* The application's process: its ledger under calls, and its shutdown
AppNext == LedgerSteps \/ ShutdownStarts \/ ShutdownDone \/ ShutdownRejects

AppSpec == LedgerOnlyInit /\ [][AppNext]_vars

\* The server answering GET /health requests
HealthNext ==
    \E r \in Requests :
        \/ HealthRequested(r)
        \/ ValidateConnectionDone(r)
        \/ CheckBucketPermissionsDone(r)
        \/ CheckBucketPermissionsFails(r)
        \/ HealthAnswered(r)

HealthSpec == LedgerOnlyInit /\ [][HealthNext]_vars

\* generateTargetKey applied to a source key
DerivSpec == DerivInit /\ [][DeriveTargetKey]_vars

\* The ledger under overlapping calls, file-system failures and crashes
LedgerSpec == LedgerOnlyInit /\ [][LedgerNext]_vars

(***************************************************************************)
(* Properties of the batch scheduler and the pipeline.                     *)
(***************************************************************************)
\* The keys whose pipeline has been started and has not reached its end
InFlight == {k \in SourceKeys : pipe[k].pc \notin {"idle", "done"}}

ListedKeys == {images[i].key : i \in 1..Len(images)}

\* C1: at every instant of a batch at most Concurrency pipelines are in flight.
C1_AtMostNInFlight == Cardinality(InFlight) <= Concurrency

\* C2: when the batch has completed without a batch-level abort, successful +
\* failed + skipped of its report equals the number of objects listed.
C2_CountsSumToListed ==
    sched \in {"returned", "returnedEmpty"} =>
        report.successful + report.failed + report.skipped = Len(images)

\* A completed batch of two objects, one converted and one failed
C2_Witness ==
    /\ sched = "returned"
    /\ Len(images) = 2
    /\ report.successful = 1
    /\ report.failed = 1

\* C3: a pipeline is started exactly once for every listed object: never twice
\* for any key, never for a key that was not listed, and once the batch has
\* returned every listed key has had its pipeline.
C3_EachListedObjectOnce ==
    /\ \A k \in SourceKeys : started[k] <= 1
    /\ \A k \in SourceKeys \ ListedKeys : started[k] = 0
    /\ sched = "returned" => \A k \in ListedKeys : started[k] = 1

\* A batch of two listed objects has returned, both pipelines having run
C3_Witness ==
    /\ sched = "returned"
    /\ Cardinality(ListedKeys) = 2
    /\ \A k \in ListedKeys : started[k] = 1 /\ pipe[k].pc = "done"

\* The pipeline of k rejected and the scheduler's catch answered
Rejected(k) == pipe[k].pc = "done" /\ pipe[k].steps = <<"rejected">>

C5_ListingFailureReport ==
    sched = "returnedError" =>
        /\ \A k \in SourceKeys : started[k] = 0 /\ pipe[k].pc = "idle"
        /\ report.successful = 0 /\ report.failed = 0 /\ report.skipped = 0
        /\ report.totalImages = 0
        /\ report.totalSizeBefore = 0 /\ report.totalSizeAfter = 0
        /\ Len(report.errors) = 1
        /\ report.errors[1] \in
              { "Batch conversion failed: " \o m :
                  m \in {"Failed to list images from bucket: boom", "", "Unknown error"} }

\* The batch returned from its catch although the bucket holds source objects
C5_Witness ==
    /\ sched = "returnedError"
    /\ \E key \in SourceKeys : bucket[key] # 0
    /\ Len(report.errors) = 1

\* C6: a pipeline run on an object whose pipeline of the batch before ended as
\* success with the target uploaded ends as skipped, without download or upload
\* (here: once its skip check has listed the store, it goes no further).
C6_SecondRunSkips ==
    \A k \in SourceKeys :
        ( /\ ~dryRun
          /\ prevStatus[k] = "success"
          /\ bucket[GenerateTargetKey(k)] # 0
          /\ pipe[k].steps # <<>>
          /\ pipe[k].steps[1] = "skipIfExists" )
        => /\ pipe[k].pc = "done"
           /\ pipe[k].result.status = "skipped"
           /\ pipe[k].steps = <<"skipIfExists">>

(***************************************************************************)
(* Properties of the conversion ledger.                                    *)
(***************************************************************************)
\* The keys the durable files hold: those of the primary store and those of the
\* journal lines that parse
DurableKeys == KeysOf(MainRecords(mainFile)) \cup KeysOf(ParsedRecords(LogLines(appendLog)))

\* C7: a key whose markAsConverted returned, with no flush, compaction or
\* consolidation step between that return and the crash, is in the membership
\* set of the next process once its ledger has loaded from the files (no mkdir
\* or journal read of that load having failed).
C7_AcknowledgedKeyRecovered ==
    (isLoaded /\ ~loadFault) => mustRecover \subseteq convertedKeys

\* C8: a key whose journal append has succeeded is, at every later instant, in
\* the journal or in the primary store.
C8_JournaledKeyStaysDurable == journaled \subseteq DurableKeys

\* C9: the primary store a consolidation writes holds every key the primary
\* store and the journal held when the consolidation began, one record per key.
C9_ConsolidationLossFree ==
    consDone.done =>
        /\ consDone.before \subseteq KeysOf(consDone.after)
        /\ Cardinality(KeysOf(consDone.after)) = Len(consDone.after)

\* C10: when the primary-store write of a compaction fails, the write queue
\* becomes the attempted batch, in its order, followed by the records queued
\* during the attempt, and no compaction is in progress, so that the next
\* threshold or flush takes them all.
C10_FailedWriteRequeuesAtHead ==
    lastRequeue.failed =>
        /\ lastRequeue.after = lastRequeue.batch \o lastRequeue.during
        /\ ~lastRequeue.writing

\* A compaction write has failed while a record was queued behind its batch
C10_Witness ==
    /\ lastRequeue.failed
    /\ Len(lastRequeue.batch) > 0
    /\ Len(lastRequeue.during) > 0

\* C11: when flush() has returned and the write it awaited has not failed, the
\* write queue is empty and every record that was queued at the call is in the
\* primary store.
C11_FlushCommitsQueue ==
    (lastFlush.returned /\ ~lastFlush.writeFailed) =>
        /\ lastFlush.queue = <<>>
        /\ lastFlush.uncommitted = {}

\* C12: in a batch that is not a dry run, the sourceKey of every pipeline that
\* ended with status success has been handed to the ledger, so the membership
\* set holds it.
C12_SuccessRecordedInLedger ==
    \A k \in SourceKeys :
        (~dryRun /\ pipe[k].pc = "done" /\ pipe[k].result.status = "success")
            => KeyString(k) \in convertedKeys

\* C13: in a dry run no pipeline reaches the upload and no target object appears
\* in the store; the ledger's membership set, journal, primary store and write
\* queue stay as they were; and a pipeline that got through the conversion ends
\* with status success and the sizes and ratio computed from the WebP.
C13_DryRunChangesNothing ==
    dryRun =>
        /\ \A k \in SourceKeys :
              /\ pipe[k].pc # "upload"
              /\ "upload" \notin Range(pipe[k].steps)
              /\ ( /\ pipe[k].pc = "done"
                   /\ pipe[k].steps[Len(pipe[k].steps)] = "convert"
                   /\ pipe[k].result.error = NoError ) =>
                    /\ pipe[k].result.status = "success"
                    /\ pipe[k].result.convertedSize = WebPLength(k)
                    /\ pipe[k].result.compressionRatio =
                          Ratio(pipe[k].obj.size - WebPLength(k), pipe[k].obj.size)
        /\ \A key \in AllKeys \ SourceKeys : bucket[key] = 0
        /\ convertedKeys = {}
        /\ ~mainFile.exists
        /\ ~appendLog.exists
        /\ writeQueue = <<>>

\* A dry-run batch has returned with a pipeline that converted its object
C13_Witness ==
    /\ dryRun
    /\ sched = "returned"
    /\ \E k \in SourceKeys :
          /\ pipe[k].pc = "done"
          /\ pipe[k].result.status = "success"
          /\ pipe[k].result.convertedSize > 0

\* C14: a pipeline in which a step raised an error ends with status failed and
\* an error message: so it is for a pipeline whose skip check raised, and every
\* failed result that processImage returns carries a message.
C14_StepErrorBecomesFailed ==
    \A k \in SourceKeys :
        /\ (pipe[k].pc = "done" /\ "skipIfExists:caught" \in Range(pipe[k].steps)) =>
              /\ pipe[k].result.status = "failed"
              /\ pipe[k].result.error # NoError
        /\ (pipe[k].pc = "done" /\ ~Rejected(k) /\ pipe[k].result.status = "failed") =>
              pipe[k].result.error # NoError

\* C15: a pipeline whose skip check found the target already in the store ends
\* as skipped with convertedSize 0 and compressionRatio 0, having run no step
\* but the skip check (no download, no codec call, no upload), and the ledger
\* holds no record of its key.
C15_SkippedTouchesNothing ==
    \A k \in SourceKeys :
        (pipe[k].pc = "done" /\ pipe[k].result.status = "skipped") =>
            /\ pipe[k].result.convertedSize = 0
            /\ pipe[k].result.compressionRatio = [num |-> 0, den |-> 1]
            /\ pipe[k].result.error = NoError
            /\ pipe[k].steps = <<"skipIfExists">>
            /\ KeyString(k) \notin convertedKeys
            /\ writeQueue = <<>>
            /\ ~appendLog.exists

C15_Witness ==
    \E k \in SourceKeys :
        /\ pipe[k].pc = "done"
        /\ pipe[k].result.status = "skipped"
        /\ pipe[k].steps = <<"skipIfExists">>
        /\ bucket[pipe[k].result.targetKey] # 0

\* C16: once a markAsConverted has returned without rejecting, the membership
\* set of that ledger holds its key (so a later isConverted of the key, which
\* returns convertedKeys.has(key), answers true).
C16_MarkedStaysConverted ==
    (lastMark.ended /\ ~lastMark.rejected) =>
        (isLoaded /\ lastMark.key \in convertedKeys)

\* C17: a markAsConverted whose journal append failed ended by rejecting, and
\* one that ended by returning had its line appended.
C17_AppendFailureRejects ==
    lastMark.ended => (lastMark.appendFailed <=> lastMark.rejected)

C17_Witness ==
    /\ lastMark.ended
    /\ lastMark.appendFailed
    /\ lastMark.rejected
    /\ faults > 0
    /\ lastMark.key \in convertedKeys

\* processingQueue.pending as a set of keys
PendingKeys == {pending[i].key : i \in 1..Len(pending)}

\* C18 as stated: no key is pending and in flight at once; a key with a
\* terminal result is out of the in-flight set and in exactly one of completed
\* and failed; a terminal key is not pending.
C18_QueueInvariantAsStated ==
    /\ PendingKeys \cap processing = {}
    /\ completed \cap failed = {}
    /\ \A k \in SourceKeys :
          pipe[k].pc = "done" =>
              /\ k \in completed \cup failed
              /\ k \notin processing
              /\ k \notin PendingKeys

\* C18 amended: no key is pending and in flight at once; a key with a terminal
\* result is in exactly one of completed and failed and is not pending; it
\* stays in the in-flight set until the scheduler's race resolves with it
\* (in flight are exactly the keys of the active promises), and when the batch
\* has returned no key is in flight.
C18_QueueInvariant ==
    /\ PendingKeys \cap processing = {}
    /\ completed \cap failed = {}
    /\ processing = activePromises
    /\ (completed \cup failed) \cap PendingKeys = {}
    /\ \A k \in SourceKeys :
          /\ pipe[k].pc = "done" <=> k \in completed \cup failed
          /\ k \in processing => pipe[k].pc # "idle"
    /\ sched = "returned" => (processing = {} /\ pending = <<>>)

C18_Witness ==
    /\ sched = "returned"
    /\ \E k \in completed : k \notin failed /\ k \notin processing /\ pipe[k].pc = "done"
    /\ \E j \in failed : j \notin completed /\ j \notin processing /\ pipe[j].pc = "done"

\* C19: when shutdown has completed it has invoked the ledger's flush(), and no
\* record is left in the ledger's write queue.
C19_ShutdownFlushesLedger ==
    shutdown.phase = "complete" =>
        /\ shutdown.flushed
        /\ shutdown.queued = <<>>

\* String.prototype.lastIndexOf("/"), 1-based; 0 stands for -1
LastSlashIndex(key) ==
    LET slashes == {i \in 1..Len(key) : key[i] = "/"}
    IN  IF slashes = {} THEN 0 ELSE CHOOSE i \in slashes : \A j \in slashes : j <= i

\* The final name of a key: what follows its last "/"
FinalName(key) == SubSeq(key, LastSlashIndex(key) + 1, Len(key))

\* The key without the extension of its final name, ".webp" appended
WithWebPExtension(key) ==
    LET dot == LastDotIndex(FinalName(key))
    IN  IF dot = 0
        THEN key \o <<".", "webp">>
        ELSE SubSeq(key, 1, LastSlashIndex(key) + dot - 1) \o <<".", "webp">>

\* C20: the target key derived from a source key is the source key with the
\* extension of its final name (the part after the last "." of the final name)
\* removed and ".webp" appended; a key whose final name has no "." gets ".webp"
\* appended with nothing removed.
C20_TargetKeyDerivation ==
    derivTarget # <<>> => derivTarget = WithWebPExtension(derivSource)

\* C21: the report a batch returns has averageCompressionRatio equal to
\* (totalSizeBefore - totalSizeAfter) / totalSizeBefore when totalSizeBefore > 0,
\* and equal to 0 otherwise.
C21_AverageCompressionRatio ==
    sched \in Returned =>
        report.averageCompressionRatio =
            IF report.totalSizeBefore > 0
            THEN Ratio(report.totalSizeBefore - report.totalSizeAfter, report.totalSizeBefore)
            ELSE ZeroRatio

C21_Witness ==
    /\ sched = "returned"
    /\ report.successful > 0
    /\ report.failed > 0
    /\ report.totalSizeBefore > 0
    /\ report.averageCompressionRatio =
           Ratio(report.totalSizeBefore - report.totalSizeAfter, report.totalSizeBefore)

\* C22: the compressionRatio of a result whose encoding was done is
\* (originalSize - convertedSize) / originalSize as it is, negative exactly
\* when convertedSize > originalSize, and a pipeline that grew its object and
\* met no error ends as success.
C22_RatioNotClamped ==
    \A k \in SourceKeys :
        (pipe[k].pc \in {"upload", "done"} /\ pipe[k].result.convertedSize > 0) =>
            LET res == pipe[k].result
            IN  /\ res.compressionRatio =
                       [num |-> res.originalSize - res.convertedSize, den |-> res.originalSize]
                /\ res.compressionRatio.num < 0 <=> res.convertedSize > res.originalSize
                /\ (pipe[k].pc = "done" /\ res.error = NoError) => res.status = "success"

C22_Witness ==
    \E k \in SourceKeys :
        /\ pipe[k].pc = "done"
        /\ pipe[k].result.convertedSize > pipe[k].result.originalSize
        /\ pipe[k].result.compressionRatio.num < 0
        /\ pipe[k].result.status = "success"

\* Where a call is while loadConvertedKeys runs, and while its consolidation runs
ConsPcs == {"consMain", "consLog", "consWrite", "consTrunc"}
LoadPcs == {"mkdir", "loadMain", "loadLog"} \cup ConsPcs

\* C23: with no file-system call failing, a load whose journal holds a
\* malformed line goes on past it: the journal read adds the key of every
\* well-formed line and goes on to the consolidation; during the consolidation
\* and once the ledger is loaded, the keys of the well-formed journal lines and
\* of the primary-store records are in the membership set; and a load that
\* ends leaves the ledger loaded.
C23_MalformedLineSkipped ==
    /\ [](faults = 0 =>
            /\ \A c \in Callers : calls[c].pc \in ConsPcs => calls[c].snap \subseteq convertedKeys
            /\ isLoaded => DurableKeys \subseteq convertedKeys)
    /\ [][\A c \in Callers :
            /\ ( /\ calls[c].pc = "loadLog"
                 /\ calls'[c].pc # "loadLog"
                 /\ Garbage \in Range(LogLines(appendLog))
                 /\ faults' = faults
                 /\ crashes' = crashes ) =>
                    /\ calls'[c].pc = "consMain"
                    /\ convertedKeys' = convertedKeys \cup
                                            KeysOf(ParsedRecords(LogLines(appendLog)))
            /\ ( /\ calls[c].pc \in LoadPcs
                 /\ calls'[c].pc \notin LoadPcs
                 /\ crashes' = crashes ) => isLoaded']_vars

C23_Witness ==
    /\ faults = 0
    /\ Garbage \in Range(LogLines(appendLog))
    /\ \E c \in Callers :
          /\ calls[c].pc = "consTrunc"
          /\ "k2" \in calls[c].snap
          /\ calls[c].snap \subseteq convertedKeys
          /\ KeysOf(MainRecords(mainFile)) = calls[c].snap

\* The fs.writeFile calls on the primary store that have been issued and have
\* not settled: that of processWriteQueue (line 181) and those of
\* consolidateFiles (line 243)
MainWritesInProgress ==
    (IF pwq.pc = "write" THEN 1 ELSE 0)
        + Cardinality({c \in Callers : calls[c].pc = "consWrite"})

\* C24: at most one rewrite of the primary store is in progress at any instant.
C24_OneRewriteAtATime == MainWritesInProgress <= 1

\* The calls that are inside loadConvertedKeys, past its isLoaded test
LoadsInProgress == {c \in Callers : calls[c].pc \in LoadPcs}

\* C25: the load of one ledger instance runs at most once at a time: callers
\* that arrive before the first load has ended do not each read the files.
C25_LoadIsSingleFlight == Cardinality(LoadsInProgress) <= 1

\* C26: on load the journal is emptied only by a consolidation whose write of
\* the primary store has succeeded; a consolidation whose read or write fails
\* leaves the journal as it was; the truncation leaves a journal without
\* lines; and a load that finds the journal without lines runs no
\* consolidation.
C26_TruncateAfterWrite ==
    /\ [](\A c \in Callers : calls[c].pc = "consTrunc" =>
              /\ consDone.done
              /\ mainFile.exists)
    /\ [][/\ appendLog' # appendLog =>
               /\ appendLog' = EmptyLog
               /\ \E c \in Callers : calls[c].pc = "consTrunc" /\ calls'[c].pc # "consTrunc"
           /\ \A c \in Callers :
               /\ (calls[c].pc = "consWrite" /\ calls'[c].pc \notin {"consWrite", "consTrunc"})
                      => (appendLog' = appendLog /\ mainFile' = mainFile)
               /\ ( /\ calls[c].pc = "consTrunc"
                    /\ calls'[c].pc # "consTrunc"
                    /\ faults' = faults
                    /\ crashes' = crashes ) => LogLines(appendLog') = <<>>
               /\ ( /\ calls[c].pc = "loadLog"
                    /\ calls'[c].pc # "loadLog"
                    /\ LogLines(appendLog) = <<>> ) => calls'[c].pc \notin ConsPcs
          ]_vars

\* A process that loaded after an earlier one had consolidated: the journal
\* is empty, its record is in the primary store, and no consolidation was run
C26_Witness ==
    /\ crashes > 0
    /\ faults = 0
    /\ isLoaded
    /\ appendLog = EmptyLog
    /\ "k2" \in KeysOf(MainRecords(mainFile))
    /\ "k2" \in convertedKeys
    /\ ~consDone.done

\* C27: with every started pipeline reaching its end, a batch that has been
\* started returns its report; and when it has returned, the pending queue
\* and the map of active promises are empty and no pipeline is still running.
C27_BatchReturns ==
    /\ [](sched \in Returned =>
            /\ pending = <<>>
            /\ activePromises = {}
            /\ processing = {}
            /\ InFlight = {})
    /\ (sched = "listing" ~> sched \in Returned)

C27_Witness ==
    /\ sched = "returned"
    /\ Len(images) = MaxImages
    /\ \A i \in 1..Len(images) : pipe[images[i].key].pc = "done"
    /\ pending = <<>>
    /\ activePromises = {}

\* C28: when a batch has returned after its loop, report.errors holds one line
\* for each failed item: its length is report.failed.
C28_OneErrorLinePerFailure ==
    sched = "returned" => Len(report.errors) = report.failed

\* The keys whose pipeline has ended with the given status
EndedAs(status) ==
    {k \in SourceKeys : pipe[k].pc = "done" /\ pipe[k].result.status = status}

\* The sum of originalSize, and of convertedSize, over the results of a set of keys
RECURSIVE SumOriginal(_)
SumOriginal(keys) ==
    IF keys = {} THEN 0
    ELSE LET k == CHOOSE x \in keys : TRUE
         IN  pipe[k].result.originalSize + SumOriginal(keys \ {k})

RECURSIVE SumConverted(_)
SumConverted(keys) ==
    IF keys = {} THEN 0
    ELSE LET k == CHOOSE x \in keys : TRUE
         IN  pipe[k].result.convertedSize + SumConverted(keys \ {k})

\* C29: at every instant of a batch, in whatever order the pipelines have
\* ended, the counts of the report are the numbers of results of each status
\* and its size totals are the sums of originalSize and convertedSize over the
\* success results alone.
C29_ReportIsSumOfResults ==
    sched \in {"pacing", "race", "returned"} =>
        /\ report.successful = Cardinality(EndedAs("success"))
        /\ report.failed = Cardinality(EndedAs("failed"))
        /\ report.skipped = Cardinality(EndedAs("skipped"))
        /\ report.totalSizeBefore = SumOriginal(EndedAs("success"))
        /\ report.totalSizeAfter = SumConverted(EndedAs("success"))

\* Two pipelines have ended as success beside a failed or skipped one, or alone
C29_Witness ==
    /\ sched = "returned"
    /\ Cardinality(EndedAs("success")) = 2
    /\ report.totalSizeBefore = SumOriginal(EndedAs("success"))
    /\ report.totalSizeAfter = SumConverted(EndedAs("success"))
    /\ report.totalSizeAfter > 0

\* The awaits of processImage in program order (lines 224, 230, 236, 247, 250, 272)
StepOrder == <<"skipIfExists", "download", "validate", "metadata", "convert", "upload">>

\* A skip check whose listing threw is a skip check that answered false
StepName(step) == IF step = "skipIfExists:caught" THEN "skipIfExists" ELSE step

\* C30: the steps of a pipeline occur in the order skip check, download,
\* validate, (metadata,) encode, upload, each begun when the one before it has
\* succeeded; an upload is attempted only with the five steps before it done
\* and the skip check having answered not-converted; and a pipeline that
\* failed at the download or at the validation has attempted no upload.
C30_StepsInOrder ==
    \A k \in SourceKeys :
        (pipe[k].pc # "idle" /\ ~Rejected(k)) =>
            LET steps == pipe[k].steps
            IN  /\ Len(steps) <= Len(StepOrder)
                /\ \A i \in 1..Len(steps) : StepName(steps[i]) = StepOrder[i]
                /\ pipe[k].pc # "done" => pipe[k].pc = StepOrder[Len(steps) + 1]
                /\ (pipe[k].pc = "upload" \/ "upload" \in Range(steps)) =>
                       /\ Len(steps) >= 5
                       /\ pipe[k].result.status # "skipped"
                       /\ pipe[k].result.convertedSize = WebPLength(k)
                       /\ ~dryRun
                /\ (pipe[k].pc = "done" /\ steps[Len(steps)] \in {"download", "validate"}
                                       /\ pipe[k].result.status = "failed") =>
                       "upload" \notin Range(steps)
                /\ Len(steps) > 1 => pipe[k].result.status # "skipped"

\* One pipeline awaits its upload with its five steps done, another has ended
\* at the validation without one
C30_Witness ==
    \E k, j \in SourceKeys :
        /\ pipe[k].pc = "upload"
        /\ Len(pipe[k].steps) = 5
        /\ pipe[j].pc = "done"
        /\ pipe[j].result.status = "failed"
        /\ pipe[j].steps[Len(pipe[j].steps)] = "validate"
        /\ pipe[j].result.error = <<"Unsupported or invalid image format">>

\* C31: the primary store holds at most one record per sourceKey.
C31_OneRecordPerKey ==
    Cardinality(KeysOf(MainRecords(mainFile))) = Len(MainRecords(mainFile))

\* C32: once shutdown has begun, no further pipeline is started.
C32_NoDispatchAfterShutdown ==
    [][shutdown.phase # "running" => \A k \in SourceKeys : started'[k] = started[k]]_vars


C34_TotalImagesIsListed ==
    sched \in {"returned", "returnedEmpty"} =>
        /\ report.totalImages = Len(images)
        /\ report.totalImages = report.successful + report.failed + report.skipped


\* C35: in the step in which markAsConverted rejects because its journal append
\* failed, its record is left neither in the write queue nor in a compaction
\* batch, and its key is not in the membership set unless another record of
\* that key is held by the ledger or its files.
C35_FailedAppendUndone ==
    [][\A c \in Callers :
         (/\ calls[c].op = "markAsConverted"
          /\ calls[c].pc = "append"
          /\ calls'[c].pc = "none"
          /\ lastMark'.appendFailed) =>
            LET rec == calls[c].rec
                others == (Range(writeQueue') \cup Range(pwq'.batch)
                             \cup Range(MainRecords(mainFile'))
                             \cup Range(ParsedRecords(LogLines(appendLog')))
                             \cup {calls'[d].rec : d \in Callers}) \ {rec}
            IN  /\ rec \notin Range(writeQueue')
                /\ rec \notin Range(pwq'.batch)
                /\ rec.key \notin {o.key : o \in others} => rec.key \notin convertedKeys']_vars


\* C36: two distinct source keys of one listing never derive the same target key.
C36_DistinctTargetKeys ==
    \A i, j \in 1..Len(images) :
        i # j => GenerateTargetKey(images[i].key) # GenerateTargetKey(images[j].key)


\* C37: a health check whose connection check and bucket permission check both
\* succeeded reports "healthy", and the request is then answered 200 when
\* memory and disk are healthy.
C37_ReachableStoreIsHealthy ==
    \A r \in Requests :
        /\ (health[r].details.connection /\ health[r].details.targetBucketAccess) =>
              health[r].s3Health = "healthy"
        /\ (/\ health[r].pc = "answered"
            /\ health[r].details.connection
            /\ health[r].details.targetBucketAccess
            /\ health[r].memoryStats = "healthy"
            /\ health[r].diskStats = "healthy") => health[r].statusCode = 200


\* C38: a batch whose listing returns no object returns the report it started
\* with (every count and size total zero, no error line), has started no
\* pipeline, and its listing step leaves pending, processing, completed and
\* failed as the batch before left them.
C38_EmptyListingFrame ==
    /\ [](sched = "returnedEmpty" =>
            /\ report = EmptyReport
            /\ report.successful + report.failed + report.skipped = 0
            /\ report.totalSizeBefore + report.totalSizeAfter = 0
            /\ report.errors = <<>>
            /\ \A k \in SourceKeys : started[k] = 0
            /\ InFlight = {})
    /\ [][(sched = "listing" /\ sched' = "returnedEmpty") =>
            /\ pending' = pending
            /\ processing' = processing
            /\ completed' = completed
            /\ failed' = failed
            /\ activePromises' = activePromises]_vars

\* A second batch listed nothing and returned, and the queue still holds the
\* terminal keys of the batch before
C38_Witness ==
    /\ sched = "returnedEmpty"
    /\ run > 1
    /\ images = <<>>
    /\ completed \cup failed # {}
    /\ report = EmptyReport

====
